---- MODULE Spec2Model ----
\* Model of the request-authentication gate of gotrue (src/api/auth.go):
\* extractBearerToken -> parseJWTClaims -> requireAdmin, one request at a time.
EXTENDS Integers, Sequences, FiniteSets, TLC

VARIABLES
    config,     \* config.JWT.Secret, loaded once
    r,          \* the *http.Request being served
    stage,      \* position of the request in the pipeline
    token,      \* result of extractBearerToken (matches[1])
    ctx,        \* context returned by the last successful stage
    err,        \* error returned by the failing stage
    calls,      \* collaborators invoked so far, in order
    keyUsed,    \* key handed to the parser by the key function
    now,        \* time.Now() observed by the claims validation
    adminUser,  \* result of getUser
    answer,     \* what isAdmin answers if it is asked
    procs,      \* the requests served concurrently, each with its own locals
    mail        \* the mailer: configuration, user, clock and messages sent

vars == <<config, r, stage, token, ctx, err, calls, keyUsed, now, adminUser, answer,
          procs, mail>>

----------------------------------------------------------------------------
\* Bounds

\* timestamps are 1..MaxTime; 0 is the zero value of an int64 claim (claim not set)
MaxTime == 3
\* number of spaces between the scheme keyword and the token, 0..MaxSpaces
MaxSpaces == 2
\* Config.Mailer.MaxFrequency ranges over 0..MaxFreq
MaxFreq == 2
\* messages handed to the mail transport, at most
MaxMails == 2

----------------------------------------------------------------------------
\* Value domains

Secrets == {"s1", "s2"}
Algs == {"HS256", "HS384", "none"}
Auds == {"tenantA", "tenantB"}
Users == {"u1", "u2"}
Schemes == {"Bearer", "bearer", "Basic"}

\* jwt.StandardClaims as embedded in GoTrueClaims: 0 means "not set"
ClaimsSet == [aud : Auds, exp : 0..MaxTime, iat : 0..MaxTime, nbf : 0..MaxTime]
NoClaims == [aud |-> "", exp |-> 0, iat |-> 0, nbf |-> 0]

\* A bearer string: either three decodable segments (alg, claims, signature)
\* or something the parser cannot split/decode. signedWith is the secret the
\* signature was produced with, under the declared algorithm.
Credentials ==
    [wellformed : {TRUE}, alg : Algs, signedWith : Secrets, claims : ClaimsSet]
    \cup {[wellformed |-> FALSE, alg |-> "", signedWith |-> "", claims |-> NoClaims]}
\* the empty capture (nothing after the separator)
EmptyCred == [wellformed |-> FALSE, alg |-> "", signedWith |-> "-", claims |-> NoClaims]
NoToken == [wellformed |-> FALSE, alg |-> "", signedWith |-> "--", claims |-> NoClaims]

\* The Authorization header: absent (Header.Get returns ""), or
\* <scheme><spaces x ' '><cred>
NoHeader == [present |-> FALSE, scheme |-> "", spaces |-> 0, cred |-> EmptyCred]
Headers ==
    {NoHeader} \cup
    [present : {TRUE}, scheme : Schemes, spaces : 0..MaxSpaces,
     cred : Credentials \cup {EmptyCred}]

\* Content of a body stream, as encoding/json sees it.
\*   syntax : the stream starts with one complete JSON value (FALSE: syntax
\*            error or empty stream, Decode returns an error)
\*   top    : type of that value; "readerr" when reading the stream fails
\*   user   : type of its "user" member ("absent" when there is none)
\*   aud    : type of user's "aud" member; audStr its value when a string
Docs ==
    {[syntax |-> FALSE, top |-> t, user |-> "absent", aud |-> "absent", audStr |-> ""]
            : t \in {"", "readerr"}}
    \cup {[syntax |-> TRUE, top |-> t, user |-> "absent", aud |-> "absent", audStr |-> ""]
            : t \in {"null", "number", "object"}}
    \cup {[syntax |-> TRUE, top |-> "object", user |-> u, aud |-> "absent", audStr |-> ""]
            : u \in {"null", "number", "object"}}
    \cup {[syntax |-> TRUE, top |-> "object", user |-> "object", aud |-> a, audStr |-> ""]
            : a \in {"null", "number"}}
    \cup {[syntax |-> TRUE, top |-> "object", user |-> "object", aud |-> "string", audStr |-> s]
            : s \in {"", "tenantA", "tenantB", "other"}}
NoDoc == [syntax |-> FALSE, top |-> "", user |-> "absent", aud |-> "absent", audStr |-> ""]

\* r.Body is nil, http.NoBody, or a stream; r.GetBody is a nil func, a func
\* that fails, or a func that returns a fresh copy of the stream.
Bodies ==
    {[body |-> b, getBody |-> "nil", doc |-> NoDoc] : b \in {"nil", "NoBody"}}
    \cup {[body |-> "stream", getBody |-> g, doc |-> NoDoc] : g \in {"nil", "err"}}
    \cup {[body |-> "stream", getBody |-> "ok", doc |-> d] : d \in Docs}

Requests == [header : Headers, b : Bodies]
NoRequest == [header |-> NoHeader, b |-> [body |-> "nil", getBody |-> "nil", doc |-> NoDoc]]

----------------------------------------------------------------------------
\* Errors and contexts

NoErr == [kind |-> "nil", msg |-> <<>>, internal |-> "nil"]
unauthorizedError(fmt, args) ==
    [kind |-> "Unauthenticated", msg |-> <<fmt>> \o args, internal |-> "nil"]
badRequestError(fmt, args) ==
    [kind |-> "BadRequest", msg |-> <<fmt>> \o args, internal |-> "nil"]
internalServerError(fmt, args) ==
    [kind |-> "InternalError", msg |-> <<fmt>> \o args, internal |-> "nil"]
WithInternalError(e, cause) == [e EXCEPT !.internal = cause]

NilCtx == [nil |-> TRUE, base |-> "", claims |-> NoClaims]
\* r.Context()
RequestContext == [nil |-> FALSE, base |-> "request", claims |-> NoClaims]
withToken(c, t) == [c EXCEPT !.claims = t.claims]

----------------------------------------------------------------------------
\* Token Extractor

\* bearerRegexp.FindStringSubmatch: <<>> when there is no match, otherwise
\* <<whole match, capture>>. Pattern: "Bearer", one space, non-empty token.
bearerRegexpFindStringSubmatch(h) ==
    IF h.scheme = "Bearer" /\ h.spaces = 1 /\ h.cred # EmptyCred
    THEN <<h, h.cred>>
    ELSE <<>>

\* variant: the submatch count is not checked, whatever follows the scheme is returned
extractBearerToken_Unchecked(req) ==
    IF ~req.header.present
    THEN [token |-> NoToken,
          err |-> unauthorizedError("This endpoint requires a Bearer token", <<>>)]
    ELSE [token |-> req.header.cred, err |-> NoErr]

extractBearerToken(req) ==
    IF ~req.header.present
    THEN [token |-> NoToken,
          err |-> unauthorizedError("This endpoint requires a Bearer token", <<>>)]
    ELSE LET matches == bearerRegexpFindStringSubmatch(req.header)
         IN IF Len(matches) # 2
            THEN [token |-> NoToken,
                  err |-> unauthorizedError("This endpoint requires a Bearer token", <<>>)]
            ELSE [token |-> matches[2], err |-> NoErr]

----------------------------------------------------------------------------
\* Claims Verifier

\* variant: a parser without ValidMethods accepts every registered method
ValidMethods_Unset == {"HS256", "HS384", "none"}

\* the parser's allow-list: jwt.Parser{ValidMethods: {HS256}}
ValidMethods == {"HS256"}

\* variant: the key is chosen from what the token itself says
keyFunc_FromToken(cfg, tok) == tok.signedWith

\* the key function given to ParseWithClaims
keyFunc(cfg, tok) == cfg

\* SigningMethod.Verify: only the HMAC methods verify against a []byte key
SigVerifies(alg, signedWith, key) ==
    alg \in {"HS256", "HS384"} /\ signedWith = key

\* variant: a token is taken as expired already at its expiry instant
StandardClaimsValid_Skew(c, t) ==
    IF c.nbf # 0 /\ ~(t >= c.nbf) THEN "token is not valid yet"
    ELSE IF c.iat # 0 /\ ~(t >= c.iat) THEN "Token used before issued"
    ELSE IF c.exp # 0 /\ ~(t < c.exp) THEN "token is expired"
    ELSE "ok"

\* variant: the expiry is not verified
StandardClaimsValid_NoExp(c, t) ==
    IF c.nbf # 0 /\ ~(t >= c.nbf) THEN "token is not valid yet"
    ELSE IF c.iat # 0 /\ ~(t >= c.iat) THEN "Token used before issued"
    ELSE "ok"

\* jwt.StandardClaims.Valid at time t: every claim is optional (0 = not set);
\* the last failing check names the cause.
StandardClaimsValid(c, t) ==
    IF c.nbf # 0 /\ ~(t >= c.nbf) THEN "token is not valid yet"
    ELSE IF c.iat # 0 /\ ~(t >= c.iat) THEN "Token used before issued"
    ELSE IF c.exp # 0 /\ ~(t <= c.exp) THEN "token is expired"
    ELSE "ok"

\* jwt.Parser.ParseWithClaims: segments, allow-list, key function, claims
\* validation, signature; key is "" when the key function was not reached.
ParseWithClaims(bearer, cfg, t) ==
    IF ~bearer.wellformed
    THEN [cause |-> "token contains an invalid number of segments", key |-> ""]
    ELSE IF bearer.alg \notin ValidMethods
    THEN [cause |-> "signing method is invalid", key |-> ""]
    ELSE LET key == keyFunc(cfg, bearer)
             v == StandardClaimsValid(bearer.claims, t)
         IN IF ~SigVerifies(bearer.alg, bearer.signedWith, key)
            THEN [cause |-> "signature is invalid", key |-> key]
            ELSE [cause |-> v, key |-> key]

\* variant: the token is attached to the context before the error is looked at
parseJWTClaims_CtxWithErr(bearer, req, cfg, t) ==
    LET c == RequestContext
        p == ParseWithClaims(bearer, cfg, t)
    IN IF p.cause # "ok"
       THEN [ctx |-> withToken(c, bearer),
             err |-> unauthorizedError("Invalid token: %v", <<p.cause>>),
             key |-> p.key]
       ELSE [ctx |-> withToken(c, bearer), err |-> NoErr, key |-> p.key]

parseJWTClaims(bearer, req, cfg, t) ==
    LET c == RequestContext
        p == ParseWithClaims(bearer, cfg, t)
    IN IF p.cause # "ok"
       THEN [ctx |-> NilCtx,
             err |-> unauthorizedError("Invalid token: %v", <<p.cause>>),
             key |-> p.key]
       ELSE [ctx |-> withToken(c, bearer), err |-> NoErr, key |-> p.key]

----------------------------------------------------------------------------
\* Admin Authorizer

Call(fn, user, aud) == [fn |-> fn, user |-> user, aud |-> aud]

\* api.requestAud: the audience of the verified claims
requestAud(c, req) == c.claims.aud

\* json.NewDecoder(bod).Decode(&params), params being a zero adminCheckParams:
\* err is the decoding error ("nil" when none), aud is params.User.Aud after.
Decode(doc) ==
    IF doc.top = "readerr" THEN [err |-> "read error", aud |-> ""]
    ELSE IF ~doc.syntax THEN [err |-> "invalid character", aud |-> ""]
    ELSE IF doc.top = "null" THEN [err |-> "nil", aud |-> ""]
    ELSE IF doc.top # "object"
    THEN [err |-> "cannot unmarshal into adminCheckParams", aud |-> ""]
    ELSE IF doc.user \in {"absent", "null"} THEN [err |-> "nil", aud |-> ""]
    ELSE IF doc.user # "object"
    THEN [err |-> "cannot unmarshal into adminCheckParams.user", aud |-> ""]
    ELSE IF doc.aud \in {"absent", "null"} THEN [err |-> "nil", aud |-> ""]
    ELSE IF doc.aud # "string"
    THEN [err |-> "cannot unmarshal into adminCheckParams.user.aud", aud |-> ""]
    ELSE [err |-> "nil", aud |-> doc.audStr]

\* variant: the decoding error is dropped
decodeParams_ErrIgnored(doc) ==
    [err |-> NoErr, aud |-> Decode(doc).aud]

\* the decoding step of requireAdmin: a decoding error becomes a bad request
decodeParams(doc) ==
    LET d == Decode(doc)
    IN IF d.err # "nil"
       THEN [err |-> badRequestError("Could not decode admin user params: %v",
                                     <<d.err>>),
             aud |-> ""]
       ELSE [err |-> NoErr, aud |-> d.aud]

\* variant: the body never replaces the audience
overrideAud_Never(aud, paramsAud) == aud

\* variant: the body's audience is taken without the emptiness test
overrideAud_Always(aud, paramsAud) == paramsAud

\* if params.User.Aud != "" { aud = params.User.Aud }
overrideAud(aud, paramsAud) == IF paramsAud # "" THEN paramsAud ELSE aud

\* the audience resolution of requireAdmin: the default from requestAud,
\* replaced by the body's audience when the request has a body. A nil
\* r.GetBody makes the call panic.
resolveAud(c, req) ==
    LET aud == requestAud(c, req)
    IN IF req.b.body # "nil" /\ req.b.body # "NoBody"
       THEN IF req.b.getBody = "nil"
            THEN [aud |-> aud, err |-> NoErr, panic |-> TRUE,
                  calls |-> <<Call("GetBody", "", "")>>]
            ELSE IF req.b.getBody = "err"
            THEN [aud |-> aud,
                  err |-> WithInternalError(
                            internalServerError("Error getting body", <<>>),
                            "GetBody failed"),
                  panic |-> FALSE,
                  calls |-> <<Call("GetBody", "", "")>>]
            ELSE LET d == decodeParams(req.b.doc)
                 IN IF d.err # NoErr
                    THEN [aud |-> aud, err |-> d.err, panic |-> FALSE,
                          calls |-> <<Call("GetBody", "", ""), Call("Decode", "", "")>>]
                    ELSE [aud |-> overrideAud(aud, d.aud),
                          err |-> NoErr, panic |-> FALSE,
                          calls |-> <<Call("GetBody", "", ""), Call("Decode", "", "")>>]
       ELSE [aud |-> aud, err |-> NoErr, panic |-> FALSE, calls |-> <<>>]

\* variant: a refusal is reported with a kind of its own
adminGate_Forbidden(c, user, aud, ans) ==
    IF ~ans
    THEN [ctx |-> NilCtx,
          err |-> [kind |-> "Forbidden", msg |-> <<"User not allowed">>,
                   internal |-> "nil"]]
    ELSE [ctx |-> c, err |-> NoErr]

\* variant: the answer of the membership check is not looked at
adminGate_Open(c, user, aud, ans) == [ctx |-> c, err |-> NoErr]

\* variant: the returned context is re-scoped to the resolved audience
adminGate_Retargeted(c, user, aud, ans) ==
    IF ~ans
    THEN [ctx |-> NilCtx, err |-> unauthorizedError("User not allowed", <<>>)]
    ELSE [ctx |-> [c EXCEPT !.claims.aud = aud], err |-> NoErr]

\* the membership gate at the end of requireAdmin; ans is isAdmin's answer
adminGate(c, user, aud, ans) ==
    IF ~ans
    THEN [ctx |-> NilCtx, err |-> unauthorizedError("User not allowed", <<>>)]
    ELSE [ctx |-> c, err |-> NoErr]

\* variant: the lookup error is not looked at
requireAdmin_LookupErrIgnored(c, req, lookup, ans) ==
    LET a == resolveAud(c, req)
    IN IF a.panic \/ a.err # NoErr
       THEN [ctx |-> NilCtx, err |-> a.err, panic |-> a.panic,
             calls |-> <<Call("getUser", "", "")>> \o a.calls]
       ELSE LET g == adminGate(c, lookup.user, a.aud, ans)
            IN [ctx |-> g.ctx, err |-> g.err, panic |-> FALSE,
                calls |-> <<Call("getUser", "", "")>> \o a.calls
                          \o <<Call("isAdmin", lookup.user, a.aud)>>]

\* variant: the body is handled before the lookup error is looked at
requireAdmin_BodyFirst(c, req, lookup, ans) ==
    LET a == resolveAud(c, req)
    IN IF a.panic \/ a.err # NoErr
       THEN [ctx |-> NilCtx, err |-> a.err, panic |-> a.panic, calls |-> a.calls]
       ELSE IF lookup.err
       THEN [ctx |-> NilCtx, err |-> unauthorizedError("Invalid admin user", <<>>),
             panic |-> FALSE, calls |-> a.calls \o <<Call("getUser", "", "")>>]
       ELSE LET g == adminGate(c, lookup.user, a.aud, ans)
            IN [ctx |-> g.ctx, err |-> g.err, panic |-> FALSE,
                calls |-> a.calls \o <<Call("getUser", "", "")>>
                          \o <<Call("isAdmin", lookup.user, a.aud)>>]

\* lookup is what getUser returns: an error, or the administrative user
requireAdmin(c, req, lookup, ans) ==
    IF lookup.err
    THEN [ctx |-> NilCtx, err |-> unauthorizedError("Invalid admin user", <<>>),
          panic |-> FALSE, calls |-> <<Call("getUser", "", "")>>]
    ELSE LET a == resolveAud(c, req)
         IN IF a.panic \/ a.err # NoErr
            THEN [ctx |-> NilCtx, err |-> a.err, panic |-> a.panic,
                  calls |-> <<Call("getUser", "", "")>> \o a.calls]
            ELSE LET g == adminGate(c, lookup.user, a.aud, ans)
                 IN [ctx |-> g.ctx, err |-> g.err, panic |-> FALSE,
                     calls |-> <<Call("getUser", "", "")>> \o a.calls
                               \o <<Call("isAdmin", lookup.user, a.aud)>>]

Lookups == {[err |-> TRUE, user |-> ""]} \cup [err : {FALSE}, user : Users]
NoLookup == [err |-> FALSE, user |-> ""]

\* requireAuthentication as a whole: the token is extracted, then verified
requireAuthentication(req, cfg, t) ==
    LET e == extractBearerToken(req)
    IN IF e.err # NoErr
       THEN [ctx |-> NilCtx, err |-> e.err]
       ELSE LET p == parseJWTClaims(e.token, req, cfg, t)
            IN [ctx |-> p.ctx, err |-> p.err]

\* the requests in flight at the same time, and the locals of one of them
\* before it arrives
Procs == {"p1", "p2"}
IdleProc ==
    [r |-> NoRequest, stage |-> "Idle", token |-> NoToken, ctx |-> NilCtx,
     err |-> NoErr, at |-> 0, lookup |-> NoLookup, ans |-> FALSE,
     actx |-> NilCtx, aerr |-> NoErr, adminRan |-> FALSE]

\* the mailer before it is configured
NoMail == [kind |-> "none", freq |-> 0, sentAt |-> 0, clock |-> 0, sent |-> 0,
           called |-> FALSE, at |-> 0, delivered |-> FALSE, ret |-> "nil"]

----------------------------------------------------------------------------
\* The pipeline, one request

Init ==
    /\ config \in Secrets
    /\ r = NoRequest
    /\ stage = "Idle"
    /\ token = NoToken
    /\ ctx = NilCtx
    /\ err = NoErr
    /\ calls = <<>>
    /\ keyUsed = ""
    /\ now = 0
    /\ adminUser = NoLookup
    /\ answer = FALSE
    /\ procs = [p \in Procs |-> IdleProc]
    /\ mail = NoMail

\* a request arrives
NewRequest ==
    /\ stage = "Idle"
    /\ \E req \in Requests : r' = req
    /\ stage' = "Unauthenticated"
    /\ UNCHANGED <<config, token, ctx, err, calls, keyUsed, now, adminUser, answer, procs, mail>>

\* requireAuthentication, first half: the token is extracted or the handler
\* returns (nil, err)
ExtractBearerToken ==
    /\ stage = "Unauthenticated"
    /\ LET e == extractBearerToken(r)
       IN /\ token' = e.token
          /\ err' = e.err
          /\ stage' = IF e.err # NoErr THEN "Rejected" ELSE "TokenExtracted"
    /\ calls' = Append(calls, Call("extractBearerToken", "", ""))
    /\ UNCHANGED <<config, r, ctx, keyUsed, now, adminUser, answer, procs, mail>>

\* requireAuthentication, second half: return api.parseJWTClaims(token, r)
ParseJWTClaims ==
    /\ stage = "TokenExtracted"
    /\ \E t \in 1..MaxTime :
         LET p == parseJWTClaims(token, r, config, t)
         IN /\ now' = t
            /\ ctx' = p.ctx
            /\ err' = p.err
            /\ keyUsed' = p.key
            /\ stage' = IF p.err # NoErr THEN "Rejected" ELSE "ClaimsVerified"
    /\ calls' = Append(calls, Call("parseJWTClaims", "", ""))
    /\ UNCHANGED <<config, r, token, adminUser, answer, procs, mail>>

\* requireAdmin on the context requireAuthentication returned
RequireAdmin ==
    /\ stage = "ClaimsVerified"
    /\ \E lookup \in Lookups, ans \in BOOLEAN :
         LET a == requireAdmin(ctx, r, lookup, ans)
         IN /\ adminUser' = lookup
            /\ answer' = ans
            /\ ctx' = a.ctx
            /\ err' = a.err
            /\ calls' = Append(calls, Call("requireAdmin", "", "")) \o a.calls
            /\ stage' = IF a.panic THEN "Panicked"
                        ELSE IF a.err # NoErr THEN "Rejected"
                        ELSE "AdminAuthorized"
    /\ UNCHANGED <<config, r, token, keyUsed, now, procs, mail>>

Next ==
    \/ NewRequest
    \/ ExtractBearerToken
    \/ ParseJWTClaims
    \/ RequireAdmin

Spec == Init /\ [][Next]_vars

TypeOK ==
    /\ config \in Secrets
    /\ r \in Requests \cup {NoRequest}
    /\ stage \in {"Idle", "Unauthenticated", "TokenExtracted", "ClaimsVerified",
                  "AdminAuthorized", "Rejected", "Panicked"}
    /\ now \in 0..MaxTime
    /\ adminUser \in Lookups \cup {NoLookup}
    /\ answer \in BOOLEAN

----------------------------------------------------------------------------
\* Observations used by the properties

StageNames == {"extractBearerToken", "parseJWTClaims", "requireAdmin"}
Ran(fn) == \E i \in 1..Len(calls) : calls[i].fn = fn
IsFn(c, fns) == c.fn \in fns
StageCalls == SelectSeq(calls, LAMBDA c : IsFn(c, StageNames))
IsAdminCalls == SelectSeq(calls, LAMBDA c : IsFn(c, {"isAdmin"}))

\* the header has the shape Bearer <token>
HeaderMatches(h) ==
    h.present /\ h.scheme = "Bearer" /\ h.spaces = 1 /\ h.cred # EmptyCred

\* the audience of the verified claims
ClaimsAud == token.claims.aud

HasBody == r.b.body = "stream"
\* the body stream was obtained and its content does not decode
Undecodable == HasBody /\ r.b.getBody = "ok" /\ Decode(r.b.doc).err # "nil"
\* there is no body, or it was obtained and decodes
BodyDecodes == ~HasBody \/ (r.b.getBody = "ok" /\ Decode(r.b.doc).err = "nil")
\* the decoded body carries user.aud as a non-empty string
OverridePresent ==
    /\ HasBody /\ r.b.getBody = "ok"
    /\ r.b.doc.syntax /\ r.b.doc.top = "object" /\ r.b.doc.user = "object"
    /\ r.b.doc.aud = "string" /\ r.b.doc.audStr # ""
\* no body, or a well-formed one whose user.aud is absent or the empty string
NoOverride ==
    \/ ~HasBody
    \/ /\ r.b.getBody = "ok" /\ r.b.doc.syntax
       /\ \/ r.b.doc.aud = "absent"
          \/ r.b.doc.aud = "string" /\ r.b.doc.audStr = ""

----------------------------------------------------------------------------
\* Properties

\* C1: whenever the admin-user lookup fails, requireAdmin returns an
\* Unauthenticated error and a nil context, whatever the body is and whatever
\* the membership check would have answered.
C1_LookupFailsClosed ==
    (Ran("requireAdmin") /\ adminUser.err) =>
        /\ stage = "Rejected"
        /\ err.kind = "Unauthenticated"
        /\ ctx = NilCtx
        /\ IsAdminCalls = <<>>

C1_Witness ==
    /\ Ran("requireAdmin") /\ adminUser.err
    /\ Undecodable /\ answer = TRUE
    /\ stage = "Rejected"

\* C2: with a verified credential, a successful lookup and a body that (if
\* any) decodes, a membership check answering false makes requireAdmin fail
\* with the Unauthenticated kind, not with a kind of its own.
C2_RefusalIsUnauthenticated ==
    (Ran("requireAdmin") /\ ~adminUser.err /\ BodyDecodes /\ ~answer) =>
        /\ stage = "Rejected"
        /\ err.kind = "Unauthenticated"
        /\ ctx = NilCtx
        /\ Len(IsAdminCalls) = 1

C2_Witness ==
    /\ Ran("requireAdmin") /\ ~adminUser.err /\ ~answer
    /\ OverridePresent
    /\ err.kind = "Unauthenticated"

\* C3: when the body decodes and carries a non-empty user.aud B, every
\* membership check is asked about B, not about the claims audience, and it
\* is asked exactly once when the lookup succeeded.
C3_BodyAudOverrides ==
    (Ran("requireAdmin") /\ OverridePresent) =>
        /\ \A i \in 1..Len(IsAdminCalls) : IsAdminCalls[i].aud = r.b.doc.audStr
        /\ ~adminUser.err =>
             IsAdminCalls = <<Call("isAdmin", adminUser.user, r.b.doc.audStr)>>

C3_Witness ==
    /\ stage = "AdminAuthorized"
    /\ OverridePresent
    /\ ClaimsAud = "tenantA" /\ r.b.doc.audStr = "other"
    /\ IsAdminCalls = <<Call("isAdmin", adminUser.user, "other")>>

\* C4: without a body, or with a well-formed body whose user.aud is absent or
\* empty, every membership check is asked about the claims audience.
C4_NoOverrideKeepsClaimsAud ==
    (Ran("requireAdmin") /\ NoOverride) =>
        /\ \A i \in 1..Len(IsAdminCalls) : IsAdminCalls[i].aud = ClaimsAud
        /\ (~adminUser.err /\ BodyDecodes) =>
             IsAdminCalls = <<Call("isAdmin", adminUser.user, ClaimsAud)>>

C4_Witness ==
    /\ stage = "AdminAuthorized"
    /\ HasBody /\ r.b.doc.aud = "string" /\ r.b.doc.audStr = ""
    /\ IsAdminCalls = <<Call("isAdmin", adminUser.user, ClaimsAud)>>

\* C5 as stated: a body that is present and does not decode always ends in
\* BadRequest.
C5_Original ==
    (Ran("requireAdmin") /\ Undecodable) => err.kind = "BadRequest"

\* C5: when the admin-user lookup succeeded and the body is present and does
\* not decode, requireAdmin fails with BadRequest; and an undecodable body
\* never reaches the membership check, whatever the lookup returned.
C5_UndecodableIsBadRequest ==
    (Ran("requireAdmin") /\ Undecodable) =>
        /\ stage = "Rejected"
        /\ ctx = NilCtx
        /\ IsAdminCalls = <<>>
        /\ ~adminUser.err => err.kind = "BadRequest"

C5_Witness ==
    /\ Ran("requireAdmin") /\ Undecodable /\ ~adminUser.err
    /\ r.b.doc.syntax /\ answer = TRUE
    /\ err.kind = "BadRequest"

\* C6: a request whose Authorization header is absent or is not
\* Bearer <token> is rejected by the extraction with Unauthenticated and no
\* token; otherwise the extracted token is exactly the part after the space.
C6_ExtractBearer ==
    Ran("extractBearerToken") =>
        IF HeaderMatches(r.header)
        THEN /\ token = r.header.cred
             /\ Len(StageCalls) = 1 => stage = "TokenExtracted"
        ELSE /\ stage = "Rejected"
             /\ Len(StageCalls) = 1
             /\ err.kind = "Unauthenticated"
             /\ token = NoToken

C6_Witness ==
    /\ Ran("extractBearerToken")
    /\ r.header.present /\ r.header.scheme = "bearer" /\ r.header.spaces = 1
    /\ r.header.cred.wellformed
    /\ stage = "Rejected"

\* C7: a credential declaring an algorithm other than HS256 is rejected by
\* parseJWTClaims with Unauthenticated and a nil context, also when its
\* signature was made with the configured secret.
C7_AlgAllowList ==
    (Ran("parseJWTClaims") /\ token.wellformed /\ token.alg # "HS256") =>
        /\ stage = "Rejected"
        /\ err.kind = "Unauthenticated"
        /\ ctx = NilCtx

C7_Witness ==
    /\ Ran("parseJWTClaims")
    /\ token.alg = "HS384" /\ token.signedWith = config
    /\ StandardClaimsValid(token.claims, now) = "ok"
    /\ stage = "Rejected"

\* C8: a credential that carries an expiry earlier than the verification time
\* is rejected by parseJWTClaims with Unauthenticated, also when it is signed
\* with the configured secret under HS256.
C8_ExpiredRejected ==
    (Ran("parseJWTClaims") /\ token.wellformed
        /\ token.claims.exp # 0 /\ token.claims.exp < now) =>
        /\ stage = "Rejected"
        /\ err.kind = "Unauthenticated"
        /\ ctx = NilCtx

C8_Witness ==
    /\ Ran("parseJWTClaims")
    /\ token.alg = "HS256" /\ token.signedWith = config
    /\ token.claims.exp # 0 /\ token.claims.exp < now
    /\ token.claims.iat = 0 /\ token.claims.nbf = 0
    /\ stage = "Rejected"

\* C9: a credential signed with another secret than the configured one is
\* rejected by parseJWTClaims with Unauthenticated, and the key given to the
\* verification is the configured secret whenever the key function is reached.
C9_ConfiguredSecretOnly ==
    Ran("parseJWTClaims") =>
        /\ keyUsed \in {"", config}
        /\ (token.wellformed /\ token.signedWith # config) =>
             /\ stage = "Rejected"
             /\ err.kind = "Unauthenticated"
             /\ ctx = NilCtx

C9_Witness ==
    /\ Ran("parseJWTClaims")
    /\ token.alg = "HS256" /\ token.signedWith # config
    /\ StandardClaimsValid(token.claims, now) = "ok"
    /\ keyUsed = config
    /\ stage = "Rejected"

\* C10: an error and a context are never returned together: a returned error
\* comes with a nil context and ends the request in Rejected, a non-nil
\* context comes with no error, and the stage that failed is the last that ran.
C10_NoPartialAuthentication ==
    /\ err # NoErr => (ctx = NilCtx /\ stage = "Rejected")
    /\ ~ctx.nil => (err = NoErr /\ stage \in {"ClaimsVerified", "AdminAuthorized"})
    /\ stage = "Rejected" => err # NoErr
    /\ (Ran("extractBearerToken") /\ ~HeaderMatches(r.header)) =>
         (~Ran("parseJWTClaims") /\ ~Ran("requireAdmin"))
    /\ (Ran("parseJWTClaims") /\ ParseWithClaims(token, config, now).cause # "ok") =>
         ~Ran("requireAdmin")
    /\ Ran("requireAdmin") => (ctx.nil \/ stage = "AdminAuthorized")

C10_Witness ==
    /\ stage = "Rejected"
    /\ Len(StageCalls) = 2
    /\ token.wellformed /\ token.alg = "HS256" /\ token.signedWith # config
    /\ ctx = NilCtx /\ err.kind = "Unauthenticated"

----------------------------------------------------------------------------
\* Properties of the pipeline as a whole

CollabNames == {"getUser", "GetBody", "Decode", "isAdmin"}
CollabCalls == SelectSeq(calls, LAMBDA c : IsFn(c, CollabNames))
FnOf(seq) == [i \in 1..Len(seq) |-> seq[i].fn]
IsPrefix(a, b) == Len(a) <= Len(b) /\ \A i \in 1..Len(a) : a[i] = b[i]
\* the audience the request resolves: the override if non-empty, else the claims'
ResolvedAud == IF OverridePresent THEN r.b.doc.audStr ELSE ClaimsAud
\* obtaining the body stream, or reading it, fails
StreamFails ==
    /\ HasBody
    /\ \/ r.b.getBody = "err"
       \/ r.b.getBody = "ok" /\ r.b.doc.top = "readerr"

\* C11 as stated: a request that has left the intermediate states of the
\* pipeline is in AdminAuthorized or in Rejected with a classified error.
C11_Original ==
    stage \notin {"Idle", "Unauthenticated", "TokenExtracted", "ClaimsVerified"} =>
        \/ stage = "AdminAuthorized"
        \/ stage = "Rejected" /\ err.kind \in {"Unauthenticated", "BadRequest", "InternalError"}

\* C12 as stated: every Unauthenticated error shows the caller the same
\* message, the one of a missing header, whatever its cause.
C12_Original ==
    err.kind = "Unauthenticated" =>
        err.msg = <<"This endpoint requires a Bearer token">>

\* C14 as stated: with the lookup done, a body whose stream cannot be
\* obtained or read makes requireAdmin fail with InternalError, the fault
\* kept out of the message.
C14_Original ==
    (Ran("requireAdmin") /\ ~adminUser.err /\ StreamFails) =>
        /\ stage = "Rejected"
        /\ err.kind = "InternalError"
        /\ err.internal # "nil"
        /\ err.msg = <<"Error getting body">>

\* C15: a step that ends in AdminAuthorized hands back the context it was
\* given, claims and claims audience included, and leaves the request as it
\* was, also when the body named another audience for the membership check.
C15_ContextUnchanged ==
    [][stage' = "AdminAuthorized" => (ctx' = ctx /\ r' = r /\ token' = token)]_vars

C15_Witness ==
    /\ stage = "AdminAuthorized"
    /\ OverridePresent /\ r.b.doc.audStr # ClaimsAud
    /\ ctx = withToken(RequestContext, token)
    /\ IsAdminCalls = <<Call("isAdmin", adminUser.user, r.b.doc.audStr)>>

\* C17 as stated: a credential without issuedAt is rejected by parseJWTClaims
\* with Unauthenticated.
C17_Original ==
    (Ran("parseJWTClaims") /\ token.wellformed /\ token.claims.iat = 0) =>
        (stage = "Rejected" /\ err.kind = "Unauthenticated")

\* C18: a request is AdminAuthorized only if its lookup succeeded, its body
\* was absent or decoded, and isAdmin answered true when asked about the user
\* of that lookup and the audience resolved in that request; isAdmin is asked
\* at most once per request.
C18_AdminGateSafety ==
    /\ Len(IsAdminCalls) <= 1
    /\ stage = "AdminAuthorized" =>
        /\ ~adminUser.err
        /\ BodyDecodes
        /\ answer
        /\ IsAdminCalls = <<Call("isAdmin", adminUser.user, ResolvedAud)>>
        /\ ~ctx.nil

C18_Witness ==
    /\ stage = "AdminAuthorized"
    /\ OverridePresent
    /\ ClaimsAud = "tenantA" /\ r.b.doc.audStr = "tenantB"
    /\ adminUser.user = "u2" /\ answer

\* C19: requireAdmin asks getUser first, then GetBody, then Decode, then
\* isAdmin; the first failing one alone sets the error kind (a failed lookup
\* with a malformed body is Unauthenticated), and isAdmin is not asked after
\* a failed lookup, body retrieval or decoding.
C19_CheckOrder ==
    Ran("requireAdmin") =>
        /\ IsPrefix(FnOf(CollabCalls),
                    IF HasBody THEN <<"getUser", "GetBody", "Decode", "isAdmin">>
                    ELSE <<"getUser", "isAdmin">>)
        /\ Len(CollabCalls) >= 1
        /\ adminUser.err =>
             (err.kind = "Unauthenticated" /\ Len(CollabCalls) = 1)
        /\ (~adminUser.err /\ HasBody /\ r.b.getBody = "err") =>
             (err.kind = "InternalError" /\ Len(CollabCalls) = 2)
        /\ (~adminUser.err /\ Undecodable) =>
             (err.kind = "BadRequest" /\ Len(CollabCalls) = 3)
        /\ (adminUser.err \/ ~BodyDecodes) => IsAdminCalls = <<>>

C19_Witness ==
    /\ Ran("requireAdmin")
    /\ adminUser.err /\ Undecodable /\ ~r.b.doc.syntax /\ answer = FALSE
    /\ err.kind = "Unauthenticated"
    /\ FnOf(CollabCalls) = <<"getUser">>

----------------------------------------------------------------------------
\* Several requests at once: every request runs the same stages on its own
\* locals; config is the only thing they share.

ConcCredentials ==
    [wellformed : {TRUE}, alg : {"HS256", "HS384"}, signedWith : Secrets,
     claims : [aud : {"tenantA"}, exp : {0, 2}, iat : {0, 2}, nbf : {0}]]
    \cup {[wellformed |-> FALSE, alg |-> "", signedWith |-> "", claims |-> NoClaims]}
ConcHeaders ==
    {NoHeader} \cup
    [present : {TRUE}, scheme : {"Bearer"}, spaces : {1}, cred : ConcCredentials]
ConcBodies ==
    {[body |-> "nil", getBody |-> "nil", doc |-> NoDoc],
     [body |-> "stream", getBody |-> "ok", doc |-> NoDoc],
     [body |-> "stream", getBody |-> "ok",
      doc |-> [syntax |-> TRUE, top |-> "object", user |-> "object",
               aud |-> "string", audStr |-> "tenantB"]]}
ConcRequests == [header : ConcHeaders, b : ConcBodies]

CNewRequest(p) ==
    /\ procs[p].stage = "Idle"
    /\ \E req \in ConcRequests :
         procs' = [procs EXCEPT ![p].r = req, ![p].stage = "Unauthenticated"]
    /\ UNCHANGED <<config, r, stage, token, ctx, err, calls, keyUsed, now,
                   adminUser, answer, mail>>

CExtract(p) ==
    /\ procs[p].stage = "Unauthenticated"
    /\ LET e == extractBearerToken(procs[p].r)
       IN procs' = [procs EXCEPT
                      ![p].token = e.token,
                      ![p].err = e.err,
                      ![p].aerr = e.err,
                      ![p].stage = IF e.err # NoErr THEN "Rejected"
                                   ELSE "TokenExtracted"]
    /\ UNCHANGED <<config, r, stage, token, ctx, err, calls, keyUsed, now,
                   adminUser, answer, mail>>

\* variant: the extracted token is kept in a place all requests share
CParse_SharedToken(p) ==
    /\ procs[p].stage = "TokenExtracted"
    /\ \E t \in 1..MaxTime, q \in Procs :
         /\ procs[q].stage \notin {"Idle", "Unauthenticated"}
         /\ LET v == parseJWTClaims(procs[q].token, procs[p].r, config, t)
            IN procs' = [procs EXCEPT
                           ![p].at = t,
                           ![p].ctx = v.ctx, ![p].err = v.err,
                           ![p].actx = v.ctx, ![p].aerr = v.err,
                           ![p].stage = IF v.err # NoErr THEN "Rejected"
                                        ELSE "ClaimsVerified"]
    /\ UNCHANGED <<config, r, stage, token, ctx, err, calls, keyUsed, now,
                   adminUser, answer, mail>>

CParse(p) ==
    /\ procs[p].stage = "TokenExtracted"
    /\ \E t \in 1..MaxTime :
         LET v == parseJWTClaims(procs[p].token, procs[p].r, config, t)
         IN procs' = [procs EXCEPT
                        ![p].at = t,
                        ![p].ctx = v.ctx, ![p].err = v.err,
                        ![p].actx = v.ctx, ![p].aerr = v.err,
                        ![p].stage = IF v.err # NoErr THEN "Rejected"
                                     ELSE "ClaimsVerified"]
    /\ UNCHANGED <<config, r, stage, token, ctx, err, calls, keyUsed, now,
                   adminUser, answer, mail>>

CAdmin(p) ==
    /\ procs[p].stage = "ClaimsVerified"
    /\ \E lookup \in Lookups, ans \in BOOLEAN :
         LET a == requireAdmin(procs[p].ctx, procs[p].r, lookup, ans)
         IN procs' = [procs EXCEPT
                        ![p].lookup = lookup, ![p].ans = ans,
                        ![p].ctx = a.ctx, ![p].err = a.err,
                        ![p].adminRan = TRUE,
                        ![p].stage = IF a.panic THEN "Panicked"
                                     ELSE IF a.err # NoErr THEN "Rejected"
                                     ELSE "AdminAuthorized"]
    /\ UNCHANGED <<config, r, stage, token, ctx, err, calls, keyUsed, now,
                   adminUser, answer, mail>>

ConcNext ==
    \E p \in Procs :
        \/ CNewRequest(p)
        \/ CExtract(p)
        \/ CParse(p)
        \/ CAdmin(p)

SpecConc == Init /\ [][ConcNext]_vars

\* requireAuthentication has returned for this request
AuthDone(s) == s.stage \notin {"Idle", "Unauthenticated", "TokenExtracted"}

\* no validity boundary of the claims c lies between the two times
NoBoundaryBetween(c, t1, t2) ==
    LET lo == IF t1 <= t2 THEN t1 ELSE t2
        hi == IF t1 <= t2 THEN t2 ELSE t1
    IN /\ ~(c.exp # 0 /\ lo <= c.exp /\ c.exp < hi)
       /\ ~(c.iat # 0 /\ lo < c.iat /\ c.iat <= hi)
       /\ ~(c.nbf # 0 /\ lo < c.nbf /\ c.nbf <= hi)

AloneOK(s) ==
    LET e == extractBearerToken(s.r)
        a == requireAuthentication(s.r, config, s.at)
        q == requireAdmin(s.actx, s.r, s.lookup, s.ans)
    IN /\ s.stage \notin {"Idle", "Unauthenticated"} => s.token = e.token
       /\ AuthDone(s) => (s.actx = a.ctx /\ s.aerr = a.err)
       /\ (AuthDone(s) /\ ~s.adminRan) => (s.ctx = a.ctx /\ s.err = a.err)
       /\ s.adminRan =>
            /\ s.ctx = q.ctx /\ s.err = q.err
            /\ (s.stage = "Panicked") = q.panic
            /\ (s.stage = "AdminAuthorized") = (~q.panic /\ q.err = NoErr)

\* C16: in every interleaving of the requests, each request's outcome (its
\* context or error, and through them the audience it was cleared for) is the
\* one it gets when run alone on the same inputs; a step changes the locals
\* of one request only and never the signing secret.
C16_RequestIsolation ==
    /\ [](\A p \in Procs : AloneOK(procs[p]))
    /\ [][/\ config' = config
          /\ \A p, q \in Procs :
               (procs'[p] # procs[p] /\ procs'[q] # procs[q]) => p = q]_vars

C16_Witness ==
    /\ procs["p1"].stage = "AdminAuthorized"
    /\ procs["p2"].stage = "Rejected" /\ ~procs["p2"].adminRan
    /\ procs["p2"].token.wellformed /\ procs["p2"].token.signedWith # config
    /\ procs["p1"].r # procs["p2"].r

----------------------------------------------------------------------------
\* The mailer (src/mailer/mailer.go)

\* variant: a mail is also sent at the very instant the interval ends
RateLimited_Inclusive(sentAt, freq, t) == ~(sentAt + freq <= t)

\* !user.ConfirmationSentAt.Add(MaxFrequency).Before(time.Now())
RateLimited(sentAt, freq, t) == ~(sentAt + freq < t)

\* TemplateMailer.ConfirmationMail at time t; urlOK: getSiteURL succeeds,
\* mailErr: the transport fails. deliver: Mail was called.
confirmationMail(m, t, urlOK, mailErr) ==
    IF RateLimited(m.sentAt, m.freq, t) THEN [deliver |-> FALSE, ret |-> "nil"]
    ELSE IF ~urlOK THEN [deliver |-> FALSE, ret |-> "url error"]
    ELSE [deliver |-> TRUE, ret |-> IF mailErr THEN "mail error" ELSE "nil"]

\* NewMailer: a noopMailer without a mail host, a TemplateMailer otherwise;
\* the user it will write to has some ConfirmationSentAt
NewMailer ==
    /\ mail.kind = "none"
    /\ \E k \in {"noop", "template"}, f \in 0..MaxFreq, sa \in 0..MaxTime :
         mail' = [mail EXCEPT !.kind = k, !.freq = f, !.sentAt = sa]
    /\ UNCHANGED <<config, r, stage, token, ctx, err, calls, keyUsed, now,
                   adminUser, answer, procs>>

\* time passes
Tick ==
    /\ mail.kind # "none"
    /\ mail.clock < MaxTime + MaxFreq + 1
    /\ mail' = [mail EXCEPT !.clock = @ + 1]
    /\ UNCHANGED <<config, r, stage, token, ctx, err, calls, keyUsed, now,
                   adminUser, answer, procs>>

\* Mailer.ConfirmationMail(user)
ConfirmationMail ==
    /\ mail.kind # "none"
    /\ mail.sent < MaxMails
    /\ \E urlOK \in BOOLEAN, mailErr \in BOOLEAN :
         LET c == IF mail.kind = "noop" THEN [deliver |-> FALSE, ret |-> "nil"]
                  ELSE confirmationMail(mail, mail.clock, urlOK, mailErr)
         IN mail' = [mail EXCEPT !.called = TRUE, !.at = mail.clock,
                                 !.delivered = c.deliver, !.ret = c.ret,
                                 !.sent = IF c.deliver THEN @ + 1 ELSE @]
    /\ UNCHANGED <<config, r, stage, token, ctx, err, calls, keyUsed, now,
                   adminUser, answer, procs>>

MailNext ==
    \/ NewMailer
    \/ Tick
    \/ ConfirmationMail

SpecMail == Init /\ [][MailNext]_vars

\* C20: TemplateMailer.ConfirmationMail hands a message to the transport only
\* when the time of the call is strictly later than ConfirmationSentAt +
\* MaxFrequency; otherwise, equality included, nothing is sent and nil is
\* returned, as after a successful send; ConfirmationSentAt is never changed.
C20_ConfirmationRateLimit ==
    /\ []((mail.kind = "template" /\ mail.called) =>
            /\ mail.delivered => mail.sentAt + mail.freq < mail.at
            /\ ~(mail.sentAt + mail.freq < mail.at) =>
                 (~mail.delivered /\ mail.ret = "nil"))
    /\ [][/\ mail.kind # "none" => mail'.sentAt = mail.sentAt
          /\ mail'.sent # mail.sent =>
               (mail'.sent = mail.sent + 1 /\ mail'.delivered
                /\ mail.sentAt + mail.freq < mail.clock)]_vars

C20_Witness ==
    /\ mail.kind = "template" /\ mail.called
    /\ mail.freq > 0 /\ mail.sentAt > 0
    /\ mail.sentAt + mail.freq = mail.at
    /\ ~mail.delivered /\ mail.ret = "nil"
    /\ mail.sent = 0

====
